---- MODULE Spec2Model ----
(***************************************************************************)
(* Model of travel-adviser's data-acquisition core:                        *)
(*   recommendations/services/open_meteo.py  (cache key, cached and        *)
(*       retried fetches, hourly-series parsing, aggregates)               *)
(*   recommendations/views/recommendation.py (TravelRecommendationView)    *)
(*   recommendations/tasks.py (update_district_weather_and_air_quality)    *)
(*                                                                         *)
(* Units.  Coordinates are integers in millidegrees (23810 = 23.810 deg),  *)
(* readings are integers in hundredths (2504 = 25.04), time is in seconds. *)
(* Python's None is the empty tuple, a present value v is <<v>>.           *)
(***************************************************************************)
EXTENDS Integers, Sequences, FiniteSets, TLC

VARIABLES
    cache,      \* django.core.cache: a set of entries [key, data, expiry]
    now,        \* wall clock, seconds
    ticks,      \* number of clock advances so far (bounds the run)
    fetch,      \* per thread: the frame of the running fetch_* call
    caller,     \* per thread: how many fetch calls it made, and the last one
    view,       \* the frame of TravelRecommendationView.get
    batch,      \* the frame of update_district_weather_and_air_quality
    districts,  \* the District table
    keyq,       \* a pair of _cache_key applications
    aggq,       \* an application of a weekly aggregate to a body
    wire        \* per key, the last body the provider delivered, and to whom

vars ==
    <<cache, now, ticks, fetch, caller, view, batch, districts, keyq, aggq, wire>>

None == <<>>
Some(x) == <<x>>
Get(o) == o[1]

(***************************************************************************)
(* Bounds of the model                                                     *)
(***************************************************************************)
NumThreads == 2     \* concurrent callers of fetch_*
MaxCalls == 2       \* fetch calls one thread makes in succession
MaxTicks == 3       \* clock advances in one run
MaxMilli == 12      \* |coordinate| in millidegrees explored for the cache key
NumDays == 2        \* calendar days in a forecast window
NumDistricts == 2   \* rows of the District table the periodic task walks

Threads == 1 .. NumThreads

(***************************************************************************)
(* Program constants                                                       *)
(***************************************************************************)
WEATHER_CACHE_TTL == 1800
AIR_QUALITY_CACHE_TTL == 1800
MaxAttempts == 3            \* stop_after_attempt(3)
WaitMultiplier == 1         \* wait_exponential(multiplier=1, ...)
WaitMin == 1                \* wait_exponential(min=1)
WaitMax == 4                \* wait_exponential(max=4)
KeyPrecision == 2           \* _cache_key(precision=2)
DefaultForecastDays == 7    \* forecast_days: int = 7
Hour2PM == 14               \* temperature_on(travel_date, hour=14)

(***************************************************************************)
(* Coordinate normalisation and the cache key                              *)
(***************************************************************************)
Abs(x) == IF x < 0 THEN -x ELSE x

RECURSIVE Pow(_, _)
Pow(b, n) == IF n = 0 THEN 1 ELSE b * Pow(b, n - 1)

\* The ties (|millidegrees| ending in 5) of the model's coordinate sets whose
\* nearest double lies above the decimal tie, so that round(x, 2) goes up:
\* round(0.005, 2) = 0.01 but round(0.015, 2) = 0.01.
TieRoundsUp == {5, 25, 35, 55, 23815, 23835, 90405, 90415, 90435}

\* Millidegrees per step of the last kept digit: 1000 / 10^precision.
MilliPerStep(precision) == 1000 \div Pow(10, precision)

\* round(|x|, precision) in units of 10^-precision, for |x| = m millidegrees.
RoundTrunc(m, precision) == m \div MilliPerStep(precision)

RoundAbs(m, precision) ==
    LET step == MilliPerStep(precision)
        q == m \div step
        r == m % step
    IN  IF 2 * r < step THEN q
        ELSE IF 2 * r > step THEN q + 1
        ELSE IF m \in TieRoundsUp THEN q + 1 ELSE q

\* round(float(x), precision) formatted by f"{v:.{precision}f}": the sign
\* character and the digits.  round() keeps the sign of a negative argument,
\* so -0.001 rounds to -0.0 and is formatted "-0.00".
FormatRounded(m, precision) ==
    [neg |-> m < 0, digits |-> RoundAbs(Abs(m), precision)]

_norm_coords(lat, lon, precision) ==
    <<FormatRounded(lat, precision), FormatRounded(lon, precision)>>

_cache_key(prefix, lat, lon, precision, extra) ==
    LET n == _norm_coords(lat, lon, precision)
    IN  <<prefix, n[1], n[2], extra>>

(***************************************************************************)
(* The provider's answers                                                  *)
(***************************************************************************)
\* A timestamp 'YYYY-MM-DDTHH:00' is <<day, hour>>.
TS(day, hour) == <<day, hour>>

\* A decoded body: hourly.time and the parallel hourly.<field> array.
Payload(time, vals) == [time |-> time, vals |-> vals]

\* What one provider request can end in, besides a decoded 200 body:
\* requests.get raising, raise_for_status raising, resp.json raising.
TransientErrors == {"ConnectionError", "Timeout", "HTTPError5xx"}
PermanentErrors == {"HTTPError4xx"}
DecodeErrors == {"JSONDecodeError"}
Errors == TransientErrors \cup PermanentErrors \cup DecodeErrors

(***************************************************************************)
(* django.core.cache (atomic get and set)                                  *)
(***************************************************************************)
CacheGetStale(c, key, t) ==
    LET es == {e \in c : e.key = key}
    IN  IF es = {} THEN None ELSE Some((CHOOSE e \in es : TRUE).data)

\* cache.get(key, _CACHE_SENTINEL): the sentinel (None here) unless an entry
\* for the key exists that has not expired.
CacheGet(c, key, t) ==
    LET es == {e \in c : e.key = key /\ t < e.expiry}
    IN  IF es = {} THEN None ELSE Some((CHOOSE e \in es : TRUE).data)

CacheSetMerge(c, key, data, t, ttl) ==
    LET old == {e \in c : e.key = key}
        kept == IF old = {} THEN data
                ELSE [data EXCEPT !.time = (CHOOSE e \in old : TRUE).data.time]
    IN  {e \in c : e.key # key}
            \cup {[key |-> key, data |-> kept, expiry |-> t + ttl]}

\* cache.set(key, data, timeout=ttl): the entry replaces any older one whole.
CacheSet(c, key, data, t, ttl) ==
    {e \in c : e.key # key} \cup {[key |-> key, data |-> data, expiry |-> t + ttl]}

(***************************************************************************)
(* fetch_weather / fetch_air_quality under the tenacity retry decorator     *)
(***************************************************************************)
Kinds == {"weather", "air_quality"}

Prefix(kind) ==
    IF kind = "weather" THEN "openmeteo:weather" ELSE "openmeteo:air_quality"

\* extra=f"fd={forecast_days}|tz={timezone}" and extra=f"fd={forecast_days}"
Extra(kind, fd) ==
    IF kind = "weather" THEN <<"fd", fd, "tz", "auto">> ELSE <<"fd", fd>>

TTL(kind) ==
    IF kind = "weather" THEN WEATHER_CACHE_TTL ELSE AIR_QUALITY_CACHE_TTL

\* The frame of one call.  pc: "idle" (no call), "http" (a provider request
\* is in flight), "sleep" (tenacity waits before the next attempt),
\* "returned", "raised" (RetryError wrapping the last attempt's exception).
\* reqs counts the provider requests the call issued; tried lists how each
\* finished request ended ("ok" or the exception).
IdleFrame ==
    [pc |-> "idle", kind |-> "weather", lat |-> 0, lon |-> 0,
     fd |-> DefaultForecastDays, attempt |-> 0, reqs |-> 0, wake |-> 0,
     data |-> None, err |-> "", tried |-> <<>>]

Key(f) == _cache_key(Prefix(f.kind), f.lat, f.lon, KeyPrecision, Extra(f.kind, f.fd))

StopOffByOne(attempt) == attempt > MaxAttempts

\* stop_after_attempt(3)
StopAfterAttempt(attempt) == attempt >= MaxAttempts

\* wait_exponential(multiplier=1, min=1, max=4) after attempt number n
WaitExponential(n) ==
    LET raw == WaitMultiplier * Pow(2, n - 1)
        capped == IF raw < WaitMax THEN raw ELSE WaitMax
    IN  IF capped > WaitMin THEN capped ELSE WaitMin

\* One attempt's first half: the cache lookup and, on a miss, the request.
Attempt(f, c, t) ==
    LET cached == CacheGet(c, Key(f), t)
    IN  IF cached # None
        THEN [f EXCEPT !.pc = "returned", !.data = cached, !.err = ""]
        ELSE [f EXCEPT !.pc = "http", !.reqs = f.reqs + 1]

\* A call begins: attempt 1.
Begin(kind, lat, lon, fd, c, t) ==
    Attempt([IdleFrame EXCEPT !.kind = kind, !.lat = lat, !.lon = lon,
                              !.fd = fd, !.attempt = 1], c, t)

CacheAfterFailureStoring(c, f, e, t) ==
    CacheSet(c, Key(f), Payload(<<>>, <<>>), t, TTL(f.kind))

\* The attempt raised before cache.set: the cache is as it was.
CacheAfterFailure(c, f, e, t) == c

\* The request of frame f ended in exception e: tenacity stops or waits.
Failed(f, e, t) ==
    IF StopAfterAttempt(f.attempt)
    THEN [f EXCEPT !.pc = "raised", !.err = e, !.tried = Append(@, e)]
    ELSE [f EXCEPT !.pc = "sleep", !.err = e, !.tried = Append(@, e),
                   !.wake = t + WaitExponential(f.attempt)]

\* The request of thread p returns a decodable 200 body.
HttpOk(p, d) ==
    /\ fetch[p].pc = "http"
    /\ cache' = CacheSet(cache, Key(fetch[p]), d, now, TTL(fetch[p].kind))
    /\ fetch' = [fetch EXCEPT
                    ![p] = [@ EXCEPT !.pc = "returned", !.data = Some(d),
                                     !.err = "", !.tried = Append(@, "ok")]]
    /\ wire' = {w \in wire : w.key # Key(fetch[p])}
                    \cup {[key |-> Key(fetch[p]), data |-> d, by |-> p]}
    /\ UNCHANGED <<now, ticks, caller, view, batch, districts, keyq, aggq>>

\* The request of thread p fails: no connection, an error status, a bad body.
HttpFail(p, e) ==
    /\ fetch[p].pc = "http"
    /\ cache' = CacheAfterFailure(cache, fetch[p], e, now)
    /\ fetch' = [fetch EXCEPT ![p] = Failed(@, e, now)]
    /\ UNCHANGED <<now, ticks, caller, view, batch, districts, keyq, aggq, wire>>

\* The backoff of thread p is over: the next attempt runs the function again.
Retry(p) ==
    /\ fetch[p].pc = "sleep"
    /\ now >= fetch[p].wake
    /\ fetch' = [fetch EXCEPT
                    ![p] = Attempt([@ EXCEPT !.attempt = @ + 1, !.wake = 0], cache, now)]
    /\ UNCHANGED <<cache, now, ticks, caller, view, batch, districts, keyq, aggq, wire>>

\* Time passes.
Advance(d, limit) ==
    /\ ticks < limit
    /\ now' = now + d
    /\ ticks' = ticks + 1
    /\ UNCHANGED <<cache, fetch, caller, view, batch, districts, keyq, aggq, wire>>

TickSteps == {1, WEATHER_CACHE_TTL - 1}

\* A second passes while some thread waits out its backoff.
Backoff(limit) ==
    /\ \E p \in Threads : fetch[p].pc = "sleep" /\ now < fetch[p].wake
    /\ Advance(1, limit)

(***************************************************************************)
(* A thread calling fetch_weather / fetch_air_quality directly             *)
(***************************************************************************)
Finished(f) == f.pc \in {"returned", "raised"}

\* n: calls made; prev: the previous call; seen: the body of the unexpired
\* entry the cache held for the call's key when the call began, if any.
IdleCaller == [n |-> 0, prev |-> None, seen |-> None]

EntryAt(c, key, t) ==
    LET es == {e \in c : e.key = key /\ e.expiry > t}
    IN  IF es = {} THEN None ELSE Some((CHOOSE e \in es : TRUE).data)

\* What a caller remembers of its previous call.
Summary(f) == [key |-> Key(f), pc |-> f.pc, reqs |-> f.reqs]

Call(p, kind, lat, lon, fd, limit) ==
    /\ fetch[p].pc = "idle" \/ Finished(fetch[p])
    /\ caller[p].n < limit
    /\ view.pc = "idle" /\ batch.pc = "idle"
    /\ caller' = [caller EXCEPT
                    ![p] = [n |-> @.n + 1,
                            prev |-> IF fetch[p].pc = "idle" THEN None
                                     ELSE Some(Summary(fetch[p])),
                            seen |-> EntryAt(cache,
                                        _cache_key(Prefix(kind), lat, lon,
                                                   KeyPrecision, Extra(kind, fd)),
                                        now)]]
    /\ fetch' = [fetch EXCEPT ![p] = Begin(kind, lat, lon, fd, cache, now)]
    /\ UNCHANGED <<cache, now, ticks, view, batch, districts, keyq, aggq, wire>>

(***************************************************************************)
(* Inputs of the fetch specifications                                      *)
(***************************************************************************)
\* Two points some 300 m apart that round to the same 2-decimal cell.
Dhaka == <<23810, 90412>>
DhakaNear == <<23812, 90414>>
Places == {Dhaka, DhakaNear}

\* The calendar days of a forecast window; it begins today.
Days == 1 .. NumDays
Today == CHOOSE d \in Days : \A e \in Days : d <= e

BodyA == Payload(<<TS(Today, Hour2PM)>>, <<Some(2504)>>)
BodyB == Payload(<<TS(Today, Hour2PM - 1), TS(Today, Hour2PM)>>,
                 <<Some(3008), Some(2000)>>)
Bodies == {BodyA, BodyB}

\* The frame of TravelRecommendationView.get.  pc: "idle", "fetching" (one of
\* the four point lookups runs), "done200" (Response), "error400"
\* (ValidationError).  vals collects cur_temp, dest_temp, cur_pm25, dest_pm25.
\* failed records that a fetch of the request raised.
IdleView ==
    [pc |-> "idle", lat |-> 0, lon |-> 0, dest |-> 0, date |-> 0, step |-> 0,
     vals |-> <<>>, temp_diff |-> None, pm25_diff |-> None,
     is_dest_cooler |-> FALSE, has_better_air |-> FALSE,
     recommendation |-> "", reason |-> <<>>, detail |-> "", failed |-> FALSE]

\* The frame of update_district_weather_and_air_quality.  pc: "idle",
\* "weather" / "air" (that fetch of district i runs), "done".  entered lists
\* the districts whose loop body began, warned those logged as failed.
\* processed lists those whose two fetches returned and were aggregated.
IdleBatch ==
    [pc |-> "idle", i |-> 0, weather_json |-> None, updated_count |-> 0,
     entered |-> {}, warned |-> {}, processed |-> {}]

Init ==
    /\ cache = {}
    /\ now = 0
    /\ ticks = 0
    /\ fetch = [p \in Threads |-> IdleFrame]
    /\ caller = [p \in Threads |-> IdleCaller]
    /\ view = IdleView
    /\ batch = IdleBatch
    /\ districts = <<>>
    /\ keyq = None
    /\ aggq = None
    /\ wire = {}

(***************************************************************************)
(* Spec: one thread calling the fetch functions in succession              *)
(***************************************************************************)
Next ==
    \/ \E kind \in Kinds, c \in Places :
            Call(1, kind, c[1], c[2], DefaultForecastDays, MaxCalls)
    \/ \E d \in Bodies : HttpOk(1, d)
    \/ \E e \in Errors : HttpFail(1, e)
    \/ Retry(1)
    \/ \E d \in TickSteps : Advance(d, MaxTicks)

Spec == Init /\ [][Next]_vars

(***************************************************************************)
(* SpecConc: threads calling the fetch functions at the same time          *)
(***************************************************************************)
\* Every thread makes one call for the same place, so that threads asking for
\* the same kind of forecast meet on one cache key.  All exceptions leave an
\* attempt the same way; the one kept here is the one raised after a 200
\* answer has arrived.
ErrorsConc == {"JSONDecodeError"}

NextConc ==
    \/ \E p \in Threads, kind \in Kinds :
            Call(p, kind, Dhaka[1], Dhaka[2], DefaultForecastDays, 1)
    \/ \E p \in Threads, d \in Bodies : HttpOk(p, d)
    \/ \E p \in Threads, e \in ErrorsConc : HttpFail(p, e)
    \/ \E p \in Threads : Retry(p)
    \/ Advance(1, MaxTicks)

SpecConc == Init /\ [][NextConc]_vars

(***************************************************************************)
(* Claims about the cached, retried fetch (Spec)                           *)
(***************************************************************************)
\* The previous call of thread p returned, and the call after it has the
\* same cache key and began while the entry for it had not expired.
InSuccessionWithinTTL(p) ==
    /\ caller[p].prev # None
    /\ Get(caller[p].prev).pc = "returned"
    /\ Get(caller[p].prev).key = Key(fetch[p])
    /\ caller[p].seen # None

\* C1 as stated: two calls in succession with the same cache key and a
\* non-expired TTL issue at most one provider request between them, the
\* second one none, and the second returns the stored payload.
C1_AtMostOneRequest ==
    \A p \in Threads :
        InSuccessionWithinTTL(p) =>
            /\ Get(caller[p].prev).reqs + fetch[p].reqs <= 1
            /\ fetch[p].pc = "returned"
            /\ fetch[p].data = caller[p].seen

\* C1 as amended: of two calls in succession with the same cache key and a
\* non-expired TTL, the second issues no provider request and returns the
\* stored payload, while the first issued one request per attempt, at most
\* MaxAttempts of them; a call that begins when the cache holds no unexpired
\* entry for its key (never stored, or the TTL has elapsed) issues a provider
\* request, so no entry is returned at or past its expiry instant.
C1_SecondCallServedFromCache ==
    \A p \in Threads :
        /\ InSuccessionWithinTTL(p) =>
            /\ fetch[p].reqs = 0
            /\ fetch[p].pc = "returned"
            /\ fetch[p].data = caller[p].seen
            /\ Get(caller[p].prev).reqs + fetch[p].reqs <= MaxAttempts
        /\ (caller[p].n > 0 /\ caller[p].seen # None) =>
            fetch[p].reqs = 0 /\ fetch[p].data = caller[p].seen
        /\ (caller[p].n > 0 /\ caller[p].seen = None) => fetch[p].reqs >= 1

\* A second call on the key of a first call that needed a retry is served
\* from the cache one second before the entry expires.
C1_Witness ==
    \E p \in Threads :
        /\ InSuccessionWithinTTL(p)
        /\ Get(caller[p].prev).reqs = 2
        /\ fetch[p].pc = "returned" /\ fetch[p].reqs = 0
        /\ now >= WEATHER_CACHE_TTL - 1

\* C3: a call whose three requests all fail makes exactly MaxAttempts
\* attempts, never a fourth, waits the backoff (1 s, then 2 s) between
\* attempts, and then raises with the last attempt's exception; a request
\* that succeeds ends the call with that body and no further attempt.
C3_ThreeAttemptsThenRaise ==
    [][\A p \in Threads :
        LET f == fetch[p]
            g == fetch'[p]
        IN  /\ g.attempt <= MaxAttempts /\ g.reqs <= MaxAttempts
            /\ g.pc = "raised" =>
                /\ g.attempt = MaxAttempts /\ g.reqs = MaxAttempts
                /\ Len(g.tried) = MaxAttempts
                /\ \A i \in 1 .. MaxAttempts : g.tried[i] \in Errors
                /\ g.err = g.tried[MaxAttempts]
            \* a failed request that is not the last is followed by a wait
            /\ (f.pc = "http" /\ g.pc # "http" /\ g.tried[Len(g.tried)] # "ok") =>
                IF f.attempt < MaxAttempts
                THEN g.pc = "sleep" /\ g.wake = now + Pow(2, f.attempt - 1)
                ELSE g.pc = "raised"
            \* the next attempt starts only after the wait, one at a time
            /\ (f.pc # "idle" /\ ~Finished(f) /\ g.attempt # f.attempt) =>
                /\ g.attempt = f.attempt + 1
                /\ f.pc = "sleep" /\ now >= f.wake
            \* a success ends the call
            /\ (f.pc = "http" /\ g.pc # "http" /\ g.tried[Len(g.tried)] = "ok") =>
                /\ g.pc = "returned" /\ g.data # None
                /\ [key |-> Key(g), data |-> Get(g.data), by |-> p] \in wire'
                /\ g.attempt = f.attempt /\ g.reqs = f.reqs
            /\ (f.pc = "returned" /\ g.pc # "returned") => g.attempt = 1
       ]_vars

\* Three transient failures in a row, of different kinds, ended a call.
C3_Witness ==
    \E p \in Threads :
        /\ fetch[p].pc = "raised"
        /\ \A i \in 1 .. MaxAttempts : fetch[p].tried[i] \in TransientErrors
        /\ fetch[p].tried[1] # fetch[p].tried[MaxAttempts]
        /\ fetch[p].err = "Timeout"

\* C4 as stated: a 4xx answer to the first request of a call ends the call at
\* once with exactly one provider request, and only transient failures are
\* followed by another attempt.
C4_PermanentNotRetried ==
    \A p \in Threads :
        LET f == fetch[p]
        IN  /\ (Len(f.tried) >= 1 /\ f.tried[1] \in PermanentErrors) =>
                f.pc = "raised" /\ f.reqs = 1
            /\ \A i \in 1 .. Len(f.tried) :
                (i < f.attempt) => f.tried[i] \in TransientErrors

(***************************************************************************)
(* Claims about concurrent fetches (SpecConc)                              *)
(***************************************************************************)
\* C2: a failing provider request stores nothing and leaves every cache
\* entry, a valid one for its own key included, as it was; the exception is
\* kept by the call and raised to the caller when the attempts are used up;
\* the cache never holds anything but a decoded body, so a later call for the
\* key finds no entry to return and asks the provider again.
C2_FailureStoresNothing ==
    [][\A p \in Threads :
        LET f == fetch[p]
            g == fetch'[p]
        IN  /\ (f.pc = "http" /\ g.pc \in {"sleep", "raised"}) =>
                /\ cache' = cache
                /\ g.data = None
                /\ g.err \in Errors /\ g.err = g.tried[Len(g.tried)]
                /\ f.attempt >= MaxAttempts => g.pc = "raised"
            /\ g.pc = "raised" => g.data = None /\ g.err \in Errors
            /\ \A e \in cache' : e.data \in Bodies
            \* a call that begins with no valid entry for its key, whatever
            \* failed before, goes to the provider
            /\ (caller'[p].n # caller[p].n
                    /\ ~\E e \in cache : e.key = Key(g) /\ now < e.expiry) =>
                g.pc = "http" /\ g.reqs = 1
       ]_vars

\* A request has just failed (the backoff started this instant) although the
\* cache holds a valid entry for its key, stored earlier by another thread.
C2_Witness ==
    \E p \in Threads :
        /\ fetch[p].pc = "sleep"
        /\ fetch[p].wake - WaitExponential(fetch[p].attempt) = now
        /\ \E e \in cache :
            /\ e.key = Key(fetch[p])
            /\ e.expiry - TTL(fetch[p].kind) < now
            /\ now < e.expiry

\* C10: however concurrent calls on one key interleave, each call makes at
\* most MaxAttempts attempts and requests, and the cache holds for each key
\* either nothing or exactly one entry, whose body is whole: the body the
\* provider delivered last for that key, which the thread that stored it
\* returned.
C10_LastWriterWins ==
    /\ \A p \in Threads :
        fetch[p].attempt <= MaxAttempts /\ fetch[p].reqs <= MaxAttempts
    /\ \A e1 \in cache, e2 \in cache : e1.key = e2.key => e1 = e2
    /\ \A e \in cache :
        \E w \in wire :
            /\ w.key = e.key /\ w.data = e.data
            /\ fetch[w.by].pc = "returned" /\ fetch[w.by].data = Some(e.data)
    /\ \A w \in wire : \E e \in cache : e.key = w.key

\* Two threads missed on the same key, both asked the provider, got different
\* bodies, and the cache holds the one delivered last.
C10_Witness ==
    \E p \in Threads, q \in Threads :
        /\ p # q
        /\ Key(fetch[p]) = Key(fetch[q])
        /\ fetch[p].pc = "returned" /\ fetch[q].pc = "returned"
        /\ fetch[p].reqs >= 1 /\ fetch[q].reqs >= 1
        /\ fetch[p].data # fetch[q].data
        /\ \E e \in cache : e.key = Key(fetch[q]) /\ Some(e.data) = fetch[q].data

(***************************************************************************)
(* SpecKey: _cache_key applied to two coordinates                          *)
(***************************************************************************)
\* Latitudes around the equator, where rounding cells, ties and the sign of
\* zero all occur; longitudes of Dhaka, two in one cell and one in the next.
KeyLats == (0 - MaxMilli) .. MaxMilli
KeyLons == {90412, 90414, 90416}

InitKey ==
    /\ cache = {}
    /\ now = 0
    /\ ticks = 0
    /\ fetch = [p \in Threads |-> IdleFrame]
    /\ caller = [p \in Threads |-> IdleCaller]
    /\ view = IdleView
    /\ batch = IdleBatch
    /\ districts = <<>>
    /\ wire = {}
    /\ aggq = None
    /\ keyq \in {Some([a |-> <<la, lo>>, b |-> <<lb, lp>>, keys |-> None]) :
                    la \in KeyLats, lo \in KeyLons, lb \in KeyLats, lp \in KeyLons}

\* Both coordinates get their key, as one of the fetch functions builds it.
ApplyKey(kind) ==
    /\ keyq # None
    /\ Get(keyq).keys = None
    /\ keyq' = LET q == Get(keyq)
                   e == Extra(kind, DefaultForecastDays)
               IN  Some([q EXCEPT !.keys = Some(
                        <<_cache_key(Prefix(kind), q.a[1], q.a[2], KeyPrecision, e),
                          _cache_key(Prefix(kind), q.b[1], q.b[2], KeyPrecision, e)>>)])
    /\ UNCHANGED <<cache, now, ticks, fetch, caller, view, batch, districts, aggq, wire>>

NextKey == \E kind \in Kinds : ApplyKey(kind)

SpecKey == InitKey /\ [][NextKey]_vars

\* x and y (millidegrees) lie strictly within 0.005 degrees of one 2-decimal
\* grid point and on the same side of zero.
SameCell(x, y) ==
    /\ (x < 0) = (y < 0)
    /\ \E g \in ((0 - MaxMilli) .. MaxMilli) \cup (9030 .. 9050) :
        Abs(x - 10 * g) < 5 /\ Abs(y - 10 * g) < 5

\* C9 as stated: two coordinates within 0.005 degrees of each other on each
\* axis get the same cache key.
C9_NearbySameKey ==
    (keyq # None /\ Get(keyq).keys # None) =>
        LET q == Get(keyq)
        IN  (Abs(q.a[1] - q.b[1]) <= 5 /\ Abs(q.a[2] - q.b[2]) <= 5) =>
                Get(q.keys)[1] = Get(q.keys)[2]

\* C9 as amended: two coordinates that lie, on each axis, strictly within
\* 0.005 degrees of the same 2-decimal grid point and on the same side of
\* zero get the same cache key.
C9_SameCellSameKey ==
    (keyq # None /\ Get(keyq).keys # None) =>
        LET q == Get(keyq)
        IN  (SameCell(q.a[1], q.b[1]) /\ SameCell(q.a[2], q.b[2])) =>
                Get(q.keys)[1] = Get(q.keys)[2]

\* Two different coordinates, one below and one above the grid point 0.01 in
\* latitude, were given one key.
C9_Witness ==
    /\ keyq # None /\ Get(keyq).keys # None
    /\ LET q == Get(keyq)
       IN  /\ q.a[1] < 10 /\ 10 < q.b[1] /\ q.a[2] # q.b[2]
           /\ SameCell(q.a[1], q.b[1]) /\ SameCell(q.a[2], q.b[2])
           /\ Get(q.keys)[1] = Get(q.keys)[2]

(***************************************************************************)
(* Parsing helpers                                                         *)
(***************************************************************************)
MinOf(a, b) == IF a < b THEN a ELSE b

\* list(zip(times, values)): pairs up to the shorter of the two arrays.
_hourly_series(payload) ==
    [i \in 1 .. MinOf(Len(payload.time), Len(payload.vals)) |->
        <<payload.time[i], payload.vals[i]>>]

\* hourly_map(payload, field).get(needle): the value paired with the last
\* occurrence of the timestamp (later pairs overwrite earlier ones in dict()),
\* None when the timestamp is absent; the value itself may be None.
value_on_date_at_hour(payload, d, hour) ==
    LET series == _hourly_series(payload)
        hits == {i \in DOMAIN series : series[i][1] = TS(d, hour)}
    IN  IF hits = {} THEN None
        ELSE series[CHOOSE i \in hits : \A j \in hits : j <= i][2]

\* The integer nearest to n / d (d > 0); a tie goes to the even one, as
\* round() does for the ties a double holds exactly.
RoundRatio(n, d) ==
    LET a == Abs(n)
        q == a \div d
        r == a % d
        m == IF 2 * r > d \/ (2 * r = d /\ q % 2 = 1) THEN q + 1 ELSE q
    IN  IF n < 0 THEN 0 - m ELSE m

\* round(n / d, 1) for n in hundredths: hundredths again, a multiple of 10.
RoundTenth(n, d) == 10 * RoundRatio(n, 10 * d)

RECURSIVE SumFirst(_, _)
\* The sum of the first n elements of q.
SumFirst(q, n) == IF n = 0 THEN 0 ELSE q[n] + SumFirst(q, n - 1)

\* sum(nums)
SumSeq(q) == SumFirst(q, Len(q))

\* [v for t, v in series if t.endswith(suffix) and v is not None]
_values_at_hour(payload, hour) ==
    LET hits == SelectSeq(_hourly_series(payload),
                          LAMBDA p : p[1][2] = hour /\ p[2] # None)
    IN  [i \in 1 .. Len(hits) |-> Get(hits[i][2])]

\* _daily_groups: for each day with a value that is not None, its values in
\* order.
_daily_groups(series) ==
    LET days == {series[i][1][1] : i \in {j \in DOMAIN series : series[j][2] # None}}
    IN  [d \in days |->
            LET hits == SelectSeq(series, LAMBDA p : p[1][1] = d /\ p[2] # None)
            IN  [i \in 1 .. Len(hits) |-> Get(hits[i][2])]]

\* round(sum(nums) / len(nums), 1) if nums else None
_avg(nums) ==
    IF Len(nums) = 0 THEN None ELSE Some(RoundTenth(SumSeq(nums), Len(nums)))

weekly_avg_temperature_at_2pm(weather_json) ==
    _avg(_values_at_hour(weather_json, Hour2PM))

RECURSIVE ProductOfLens(_, _)
\* The product over the days in ds of len(values).
ProductOfLens(by_day, ds) ==
    IF ds = {} THEN 1
    ELSE LET d == CHOOSE x \in ds : TRUE
         IN  Len(by_day[d]) * ProductOfLens(by_day, ds \ {d})

RECURSIVE SumOfMeans(_, _, _)
\* The sum over the days in ds of sum(values) / len(values), in units of
\* 1 / den, where every len(values) divides den.
SumOfMeans(by_day, ds, den) ==
    IF ds = {} THEN 0
    ELSE LET d == CHOOSE x \in ds : TRUE
         IN  SumSeq(by_day[d]) * (den \div Len(by_day[d]))
                + SumOfMeans(by_day, ds \ {d}, den)

weekly_avg_pm25_pooled(air_json) ==
    LET hits == SelectSeq(_hourly_series(air_json), LAMBDA p : p[2] # None)
    IN  _avg([i \in 1 .. Len(hits) |-> Get(hits[i][2])])

\* The mean of the daily means, rounded once.
weekly_avg_pm25(air_json) ==
    LET by_day == _daily_groups(_hourly_series(air_json))
        days == {d \in DOMAIN by_day : Len(by_day[d]) > 0}
        den == ProductOfLens(by_day, days)
    IN  IF days = {} THEN None
        ELSE Some(RoundTenth(SumOfMeans(by_day, days, den),
                             den * Cardinality(days)))

(***************************************************************************)
(* TravelRecommendationView                                                *)
(***************************************************************************)
_qual_temp(delta) ==
    LET d == Abs(delta)
    IN  IF d >= 500 THEN "significantly"
        ELSE IF d >= 200 THEN "moderately" ELSE "slightly"

_qual_pm(delta) ==
    LET d == Abs(delta)
    IN  IF d >= 2000 THEN "significantly"
        ELSE IF d >= 1000 THEN "moderately" ELSE "slightly"

\* round(x, 1) of a value in hundredths, in hundredths.
Round1(x) == RoundTenth(x, 1)

DefaultOutcomeZeroDiffs ==
    [recommendation |-> "Not Recommended", reason |-> <<"insufficient data">>,
     temp_diff |-> Some(0), pm25_diff |-> Some(0),
     is_dest_cooler |-> FALSE, has_better_air |-> FALSE]

\* The default outcome if we lack data.
DefaultOutcome ==
    [recommendation |-> "Not Recommended", reason |-> <<"insufficient data">>,
     temp_diff |-> None, pm25_diff |-> None,
     is_dest_cooler |-> FALSE, has_better_air |-> FALSE]

IsLowerOrEqual(dest, cur) == dest <= cur

\* dest_temp < cur_temp, dest_pm25 < cur_pm25
IsLower(dest, cur) == dest < cur

\* The comparison of the four 2 PM values.
Outcome(cur_temp, dest_temp, cur_pm25, dest_pm25) ==
    IF None \in {cur_temp, dest_temp, cur_pm25, dest_pm25}
    THEN DefaultOutcome
    ELSE
        LET temp_diff == Round1(Get(dest_temp) - Get(cur_temp))
            pm25_diff == Round1(Get(dest_pm25) - Get(cur_pm25))
            cooler == IsLower(Get(dest_temp), Get(cur_temp))
            better == IsLower(Get(dest_pm25), Get(cur_pm25))
            parts ==
                (IF ~cooler
                 THEN <<IF temp_diff > 0 THEN "hotter"
                        ELSE "the same temperature">>
                 ELSE <<>>)
                \o
                (IF ~better
                 THEN <<IF pm25_diff > 0 THEN "worse air quality"
                        ELSE "the same air quality">>
                 ELSE <<>>)
            join == IF parts # <<>> THEN parts
                    ELSE <<"not better on temperature or air quality">>
        IN  [recommendation |->
                IF cooler /\ better THEN "Recommended" ELSE "Not Recommended",
             reason |->
                IF cooler /\ better
                THEN <<"cooler and better air", Abs(temp_diff),
                       _qual_temp(temp_diff), _qual_pm(pm25_diff)>>
                ELSE <<"better to stay">> \o join,
             temp_diff |-> Some(temp_diff), pm25_diff |-> Some(pm25_diff),
             is_dest_cooler |-> cooler, has_better_air |-> better]

\* RecommendationQuerySerializer.is_valid
ValidQuery(lat, lon, dest, date) ==
    /\ -90000 <= lat /\ lat <= 90000
    /\ -180000 <= lon /\ lon <= 180000
    /\ dest \in DOMAIN districts
    /\ date >= Today

\* The four lookups in order: current and destination temperature, current
\* and destination PM2.5.
StepKind(i) == IF i <= 2 THEN "weather" ELSE "air_quality"

StepPlace(v, i) ==
    IF i \in {1, 3} THEN <<v.lat, v.lon>>
    ELSE <<districts[v.dest].latitude, districts[v.dest].longitude>>

BeginStep(v, i) ==
    Begin(StepKind(i), StepPlace(v, i)[1], StepPlace(v, i)[2],
          DefaultForecastDays, cache, now)

\* The response payload built from the collected values.
Responded(v) ==
    LET o == Outcome(v.vals[1], v.vals[2], v.vals[3], v.vals[4])
    IN  [v EXCEPT !.pc = "done200",
                  !.recommendation = o.recommendation, !.reason = o.reason,
                  !.temp_diff = o.temp_diff, !.pm25_diff = o.pm25_diff,
                  !.is_dest_cooler = o.is_dest_cooler,
                  !.has_better_air = o.has_better_air]

OnFetchRaisedAsVerdict(v, e) ==
    [v EXCEPT !.pc = "done200", !.recommendation = "Not Recommended",
              !.reason = <<"insufficient data">>]

\* except Exception as e: raise ValidationError({"detail": str(e)})
OnFetchRaised(v, e) == [v EXCEPT !.pc = "error400", !.detail = e]

\* A request arrives: validation, then the first lookup begins.
ViewGet(lat, lon, dest, date) ==
    /\ view.pc = "idle" /\ batch.pc = "idle" /\ fetch[1].pc = "idle"
    /\ IF ValidQuery(lat, lon, dest, date)
       THEN /\ view' = [IdleView EXCEPT !.pc = "fetching", !.lat = lat,
                                        !.lon = lon, !.dest = dest,
                                        !.date = date, !.step = 1]
            /\ fetch' = [fetch EXCEPT
                            ![1] = BeginStep([lat |-> lat, lon |-> lon,
                                              dest |-> dest], 1)]
       ELSE /\ view' = [IdleView EXCEPT !.pc = "error400", !.detail = "invalid"]
            /\ UNCHANGED fetch
    /\ UNCHANGED <<cache, now, ticks, caller, batch, districts, keyq, aggq, wire>>

\* A lookup's fetch returned: the 2 PM value is read, and the next lookup
\* begins or, after the fourth, the response is built.
ViewFetched ==
    /\ view.pc = "fetching" /\ fetch[1].pc = "returned"
    /\ LET value == value_on_date_at_hour(Get(fetch[1].data), view.date, Hour2PM)
           v == [view EXCEPT !.vals = Append(@, value)]
       IN  IF view.step < 4
           THEN /\ view' = [v EXCEPT !.step = @ + 1]
                /\ fetch' = [fetch EXCEPT ![1] = BeginStep(view, view.step + 1)]
           ELSE /\ view' = Responded(v)
                /\ fetch' = [fetch EXCEPT ![1] = IdleFrame]
    /\ UNCHANGED <<cache, now, ticks, caller, batch, districts, keyq, aggq, wire>>

\* A lookup's fetch raised.
ViewFetchRaised ==
    /\ view.pc = "fetching" /\ fetch[1].pc = "raised"
    /\ view' = [OnFetchRaised(view, fetch[1].err) EXCEPT !.failed = TRUE]
    /\ fetch' = [fetch EXCEPT ![1] = IdleFrame]
    /\ UNCHANGED <<cache, now, ticks, caller, batch, districts, keyq, aggq, wire>>

(***************************************************************************)
(* SpecView: one recommendation request                                    *)
(***************************************************************************)
District(name, lat, lon, temp, pm25) ==
    [name |-> name, latitude |-> lat, longitude |-> lon,
     avg_temp_2pm |-> temp, avg_pm2_5 |-> pm25]

\* Rows of the District table, by primary key; the first was updated by an
\* earlier run of the periodic task, the others never.
AllDistricts ==
    <<District("Dhaka", Dhaka[1], Dhaka[2], Some(2990), Some(4440)),
      District("Cox's Bazar", 21427, 92006, None, None),
      District("Gazipur", 23999, 90420, None, None),
      District("Sylhet", 24899, 91869, None, None)>>

DistrictRows == SubSeq(AllDistricts, 1, 2)

TempVals == {2000, 2204, 2508}
PmVals == {1000, 2004, 3508}

\* Bodies around the 2 PM reading of one day: present, null, the hour
\* missing, the value array one short.
PointBodies(readings) ==
    {Payload(<<TS(Today, Hour2PM)>>, <<Some(v)>>) : v \in readings}
        \cup {Payload(<<TS(Today, Hour2PM)>>, <<None>>),
              Payload(<<TS(Today, Hour2PM - 1)>>, <<Some(2000)>>),
              Payload(<<TS(Today, Hour2PM - 1), TS(Today, Hour2PM)>>,
                      <<Some(2000)>>)}

BodiesOf(kind) ==
    IF kind = "weather" THEN PointBodies(TempVals) ELSE PointBodies(PmVals)

\* A place in Dhaka's cache cell, another city, and a latitude out of range.
ViewPlaces == {DhakaNear, <<24899, 91869>>, <<90001, 90412>>}

ErrorsView == {"Timeout", "HTTPError4xx"}

InitView ==
    /\ cache = {}
    /\ now = 0
    /\ ticks = 0
    /\ fetch = [p \in Threads |-> IdleFrame]
    /\ caller = [p \in Threads |-> IdleCaller]
    /\ view = IdleView
    /\ batch = IdleBatch
    /\ districts = DistrictRows
    /\ keyq = None
    /\ aggq = None
    /\ wire = {}

NextView ==
    \/ \E c \in ViewPlaces, dest \in 1 .. Len(DistrictRows) + 1,
          date \in (Today - 1) .. Today :
            ViewGet(c[1], c[2], dest, date)
    \/ ViewFetched
    \/ ViewFetchRaised
    \/ \E d \in BodiesOf(fetch[1].kind) : HttpOk(1, d)
    \/ \E e \in ErrorsView : HttpFail(1, e)
    \/ Retry(1)
    \/ Backoff(MaxTicks)

SpecView == InitView /\ [][NextView]_vars

(***************************************************************************)
(* Claims about the recommendation (SpecView)                              *)
(***************************************************************************)
\* C5: a request in which a fetch raised ends as an error response without
\* a verdict, and a response with a verdict is built only from four fetches
\* that returned.
C5_FetchFailureIsAnError ==
    /\ view.failed =>
        /\ view.pc = "error400"
        /\ view.recommendation = ""
        /\ view.detail \in Errors
    /\ view.pc = "done200" =>
        /\ ~view.failed
        /\ Len(view.vals) = 4
        /\ view.recommendation \in {"Recommended", "Not Recommended"}
    /\ view.recommendation # "" => view.pc = "done200"

\* The fourth fetch of a request raised after three had returned.
C5_Witness ==
    view.failed /\ view.pc = "error400" /\ Len(view.vals) = 3

\* C6: with all four 2 PM values present, the verdict is "Recommended"
\* exactly when the destination is strictly cooler and strictly cleaner, and
\* "Not Recommended" otherwise.
C6_RecommendedIffBothLower ==
    (view.pc = "done200" /\ \A i \in 1 .. 4 : view.vals[i] # None) =>
        LET cur_temp == Get(view.vals[1])
            dest_temp == Get(view.vals[2])
            cur_pm25 == Get(view.vals[3])
            dest_pm25 == Get(view.vals[4])
        IN  IF dest_temp < cur_temp /\ dest_pm25 < cur_pm25
            THEN view.recommendation = "Recommended"
            ELSE view.recommendation = "Not Recommended"

\* A cooler destination with the same PM2.5 as here was not recommended.
C6_Witness ==
    /\ view.pc = "done200"
    /\ \A i \in 1 .. 4 : view.vals[i] # None
    /\ Get(view.vals[2]) < Get(view.vals[1])
    /\ view.vals[4] = view.vals[3]
    /\ view.recommendation = "Not Recommended"

\* C7: when all four fetches returned and one of the four 2 PM values is
\* None, the verdict is "Not Recommended" for lack of data and both
\* differentials stay None.
C7_NoDataNotRecommended ==
    (view.pc = "done200" /\ \E i \in 1 .. 4 : view.vals[i] = None) =>
        /\ view.recommendation = "Not Recommended"
        /\ view.reason = <<"insufficient data">>
        /\ view.temp_diff = None
        /\ view.pm25_diff = None

\* Only the destination's PM2.5 is missing, and the destination is cooler.
C7_Witness ==
    /\ view.pc = "done200"
    /\ \A i \in 1 .. 3 : view.vals[i] # None
    /\ view.vals[4] = None
    /\ Get(view.vals[2]) < Get(view.vals[1])
    /\ view.recommendation = "Not Recommended"

(***************************************************************************)
(* update_district_weather_and_air_quality                                 *)
(***************************************************************************)
\* Hourly timestamps of the forecast window: 1 PM and 2 PM of each day.
BatchTimes ==
    [i \in 1 .. 2 * NumDays |-> TS((i + 1) \div 2, Hour2PM - (i % 2))]

\* Weather bodies: a 2 PM temperature on every day; every 2 PM value null.
WeatherBodies ==
    {Payload(BatchTimes, [i \in 1 .. 2 * NumDays |-> Some(2000 + 252 * i)]),
     Payload(BatchTimes, [i \in 1 .. 2 * NumDays |->
                            IF i % 2 = 0 THEN None ELSE Some(2000)])}

\* The air body: 10 and 20 on the first day, 30 on the second, null after.
AirBodies ==
    {Payload(BatchTimes, [i \in 1 .. 2 * NumDays |->
                            IF i <= 3 THEN Some(1000 * i) ELSE None])}

\* The air body whose every reading is null.
NullAirBodies == {Payload(BatchTimes, [i \in 1 .. 2 * NumDays |-> None])}

BatchBodiesOf(kind) == IF kind = "weather" THEN WeatherBodies ELSE AirBodies

\* The aggregates of every body the provider answers with, by body.
WeeklyTemperatureOf ==
    [d \in WeatherBodies |-> weekly_avg_temperature_at_2pm(d)]

WeeklyPm25Of == [d \in AirBodies \cup NullAirBodies |-> weekly_avg_pm25(d)]

\* The fetch the task makes for district i.
DistrictFetch(kind, i) ==
    Begin(kind, districts[i].latitude, districts[i].longitude,
          DefaultForecastDays, cache, now)

\* The for loop moves to the next row of the queryset, or falls out of it
\* to the closing logger.info.
NextDistrict(b) ==
    IF b.i < Len(districts)
    THEN [b EXCEPT !.pc = "weather", !.i = @ + 1, !.weather_json = None,
                   !.entered = @ \cup {b.i + 1}]
    ELSE [b EXCEPT !.pc = "done", !.weather_json = None]

OnDistrictFailedAbort(b) ==
    [b EXCEPT !.pc = "aborted", !.warned = @ \cup {b.i}]

\* except Exception as e: logger.warning(...); continue
OnDistrictFailed(b) == NextDistrict([b EXCEPT !.warned = @ \cup {b.i}])

ShouldSaveEither(temp, pm25) == temp # None \/ pm25 # None

\* if temp is not None and pm25 is not None
ShouldSave(temp, pm25) == temp # None /\ pm25 # None

\* district.save(update_fields=["avg_temp_2pm", "avg_pm2_5", "updated_at"])
Saved(row, temp, pm25) ==
    [row EXCEPT !.avg_temp_2pm = temp, !.avg_pm2_5 = pm25]

\* The fetch frame after a step of the task: the next district's weather
\* fetch, or nothing when the loop is over.
FetchAfter(b) ==
    IF b.pc = "weather"
    THEN [fetch EXCEPT ![1] = DistrictFetch("weather", b.i)]
    ELSE [fetch EXCEPT ![1] = IdleFrame]

\* Celery beat starts the task: the queryset is read and the first
\* district's weather fetch begins.
BatchRun ==
    /\ batch.pc = "idle" /\ view.pc = "idle" /\ fetch[1].pc = "idle"
    /\ batch' = NextDistrict(IdleBatch)
    /\ fetch' = FetchAfter(batch')
    /\ UNCHANGED <<cache, now, ticks, caller, view, districts, keyq, aggq, wire>>

\* fetch_weather returned: fetch_air_quality begins for the same district.
BatchWeatherFetched ==
    /\ batch.pc = "weather" /\ fetch[1].pc = "returned"
    /\ batch' = [batch EXCEPT !.pc = "air", !.weather_json = fetch[1].data]
    /\ fetch' = [fetch EXCEPT ![1] = DistrictFetch("air_quality", batch.i)]
    /\ UNCHANGED <<cache, now, ticks, caller, view, districts, keyq, aggq, wire>>

\* fetch_air_quality returned: both aggregates are computed, the row is
\* saved when both exist, and the loop moves on.
BatchAirFetched ==
    /\ batch.pc = "air" /\ fetch[1].pc = "returned"
    /\ LET temp == WeeklyTemperatureOf[Get(batch.weather_json)]
           pm25 == WeeklyPm25Of[Get(fetch[1].data)]
           b == [batch EXCEPT !.processed = @ \cup {batch.i}]
       IN  IF ShouldSave(temp, pm25)
           THEN /\ districts' = [districts EXCEPT
                                    ![batch.i] = Saved(@, temp, pm25)]
                /\ batch' = NextDistrict([b EXCEPT !.updated_count = @ + 1])
           ELSE /\ districts' = districts
                /\ batch' = NextDistrict(b)
    /\ fetch' = FetchAfter(batch')
    /\ UNCHANGED <<cache, now, ticks, caller, view, keyq, aggq, wire>>

\* Either fetch of the current district raised.
BatchFetchRaised ==
    /\ batch.pc \in {"weather", "air"} /\ fetch[1].pc = "raised"
    /\ batch' = OnDistrictFailed(batch)
    /\ fetch' = FetchAfter(batch')
    /\ UNCHANGED <<cache, now, ticks, caller, view, districts, keyq, aggq, wire>>

(***************************************************************************)
(* SpecBatch: one run of the periodic task                                 *)
(***************************************************************************)
ErrorsBatch == {"Timeout"}

\* No run waits longer than this: every attempt of every fetch at WaitMax.
BatchTickLimit == 2 * NumDistricts * MaxAttempts * WaitMax

InitBatch ==
    /\ cache = {}
    /\ now = 0
    /\ ticks = 0
    /\ fetch = [p \in Threads |-> IdleFrame]
    /\ caller = [p \in Threads |-> IdleCaller]
    /\ view = IdleView
    /\ batch = IdleBatch
    /\ districts = SubSeq(AllDistricts, 1, NumDistricts)
    /\ keyq = None
    /\ aggq = None
    /\ wire = {}

NextBatch ==
    \/ BatchRun
    \/ BatchWeatherFetched
    \/ BatchAirFetched
    \/ BatchFetchRaised
    \/ \E d \in BatchBodiesOf(fetch[1].kind) : HttpOk(1, d)
    \/ \E e \in ErrorsBatch : HttpFail(1, e)
    \/ Retry(1)
    \/ Backoff(BatchTickLimit)

\* Every request is answered or times out and every backoff sleep ends, so
\* the task's thread keeps taking steps.
SpecBatch == InitBatch /\ [][NextBatch]_vars /\ WF_vars(NextBatch)

(***************************************************************************)
(* Claims about the periodic task (SpecBatch)                              *)
(***************************************************************************)
BatchLoopIntact ==
    /\ batch.pc \in {"idle", "weather", "air", "done"}
    /\ batch.entered = 1 .. batch.i
    /\ batch.warned \cap batch.processed = {}
    /\ batch.pc \in {"weather", "air"} =>
        batch.warned \cup batch.processed = batch.entered \ {batch.i}
    /\ batch.pc = "done" =>
        /\ batch.entered = DOMAIN districts
        /\ batch.warned \cup batch.processed = DOMAIN districts

\* C8: a district whose fetch raises is logged and skipped, the loop goes on
\* to every remaining district, each of which is fetched and then either
\* processed or logged in its turn, and a started run reaches its end.
C8_BatchSurvivesFailures ==
    /\ []BatchLoopIntact
    /\ (batch.pc # "idle") ~> (batch.pc = "done")

\* The run ended; the first district's fetch had raised and the second
\* district was fetched, processed and saved after it.
C8_Witness ==
    /\ batch.pc = "done"
    /\ 1 \in batch.warned
    /\ 2 \in batch.processed
    /\ districts[2].avg_temp_2pm # None
    /\ districts[1] = AllDistricts[1]

(***************************************************************************)
(* SpecSave: one run of the periodic task, with bodies that lack data      *)
(***************************************************************************)
SaveBodiesOf(kind) ==
    IF kind = "weather" THEN WeatherBodies ELSE AirBodies \cup NullAirBodies

NextSave ==
    \/ BatchRun
    \/ BatchWeatherFetched
    \/ BatchAirFetched
    \/ BatchFetchRaised
    \/ \E d \in SaveBodiesOf(fetch[1].kind) : HttpOk(1, d)
    \/ \E e \in ErrorsBatch : HttpFail(1, e)
    \/ Retry(1)
    \/ Backoff(BatchTickLimit)

SpecSave == InitBatch /\ [][NextSave]_vars

(***************************************************************************)
(* Claims about the stored averages (SpecSave)                             *)
(***************************************************************************)
\* Both fetches of district i have returned and both weekly aggregates of
\* their bodies exist.
BothAggregatesExist(i) ==
    /\ batch.pc = "air" /\ batch.i = i /\ fetch[1].pc = "returned"
    /\ weekly_avg_temperature_at_2pm(Get(batch.weather_json)) # None
    /\ weekly_avg_pm25(Get(fetch[1].data)) # None

\* A step either writes both aggregates to the row of the district whose
\* fetches returned with both aggregates present, or leaves the row as it is.
RowWrittenOnlyWhole(i) ==
    IF BothAggregatesExist(i)
    THEN /\ districts'[i].avg_temp_2pm =
                weekly_avg_temperature_at_2pm(Get(batch.weather_json))
         /\ districts'[i].avg_pm2_5 = weekly_avg_pm25(Get(fetch[1].data))
         /\ districts'[i].avg_temp_2pm # None /\ districts'[i].avg_pm2_5 # None
    ELSE districts'[i] = districts[i]

\* A district whose fetch raised keeps its stored values; no row ever holds
\* one average without the other, and a stored average never becomes None.
RowsKept ==
    \A i \in DOMAIN districts :
        /\ i \in batch.warned => districts[i] = AllDistricts[i]
        /\ (districts[i].avg_temp_2pm = None) = (districts[i].avg_pm2_5 = None)
        /\ AllDistricts[i].avg_temp_2pm # None =>
                districts[i].avg_temp_2pm # None

\* C12: the task writes a district's avg_temp_2pm and avg_pm2_5 only after
\* both of its fetches returned and both weekly aggregates are not None, and
\* then writes both; in every other case, a failed fetch and a missing
\* aggregate included, both stored values stay as they were.
C12_BothOrNeitherWritten ==
    /\ []RowsKept
    /\ [][\A i \in DOMAIN districts : RowWrittenOnlyWhole(i)]_vars

\* The run ended with both districts processed: the first, whose body gave
\* no aggregate, kept its earlier averages, and the second got both.
C12_Witness ==
    /\ batch.pc = "done"
    /\ batch.processed = {1, 2}
    /\ batch.updated_count = 1
    /\ districts[1] = AllDistricts[1]
    /\ districts[2].avg_temp_2pm # None
    /\ districts[2].avg_pm2_5 # None

(***************************************************************************)
(* SpecAgg: the weekly aggregates applied to one response body             *)
(***************************************************************************)
\* Hourly readings: null, whole numbers and one with a quarter.
AggReadings == {None, Some(1000), Some(1025), Some(2000), Some(3000)}

\* Every assignment of a reading to each hour of the window, and the same
\* with the value array one element short of the time array.
AggBodies ==
    LET full == {Payload(BatchTimes, v) :
                    v \in [1 .. 2 * NumDays -> AggReadings]}
    IN  full \cup {Payload(BatchTimes, SubSeq(b.vals, 1, 2 * NumDays - 1)) :
                    b \in full}

InitAgg ==
    /\ cache = {}
    /\ now = 0
    /\ ticks = 0
    /\ fetch = [p \in Threads |-> IdleFrame]
    /\ caller = [p \in Threads |-> IdleCaller]
    /\ view = IdleView
    /\ batch = IdleBatch
    /\ districts = <<>>
    /\ keyq = None
    /\ wire = {}
    /\ aggq \in {Some([payload |-> b, fn |-> "", result |-> None]) :
                    b \in AggBodies}

ApplyWeeklyPm25 ==
    /\ aggq # None
    /\ Get(aggq).fn = ""
    /\ aggq' = Some([Get(aggq) EXCEPT
                        !.fn = "weekly_avg_pm25",
                        !.result = weekly_avg_pm25(Get(aggq).payload)])
    /\ UNCHANGED <<cache, now, ticks, fetch, caller, view, batch, districts,
                   keyq, wire>>

ApplyWeeklyTemperature ==
    /\ aggq # None
    /\ Get(aggq).fn = ""
    /\ aggq' = Some([Get(aggq) EXCEPT
                        !.fn = "weekly_avg_temperature_at_2pm",
                        !.result = weekly_avg_temperature_at_2pm(Get(aggq).payload)])
    /\ UNCHANGED <<cache, now, ticks, fetch, caller, view, batch, districts,
                   keyq, wire>>

NextAgg == ApplyWeeklyPm25 \/ ApplyWeeklyTemperature

SpecAgg == InitAgg /\ [][NextAgg]_vars

(***************************************************************************)
(* Claims about the aggregates (SpecAgg)                                   *)
(***************************************************************************)
\* The positions of a body that pair a timestamp of day d with a reading
\* that is not null.
ValidAt(b, d) ==
    {i \in 1 .. MinOf(Len(b.time), Len(b.vals)) :
        b.time[i][1] = d /\ b.vals[i] # None}

\* The days of a body with at least one valid reading.
DaysWithReadings(b) ==
    {b.time[i][1] : i \in {j \in 1 .. MinOf(Len(b.time), Len(b.vals)) :
                            b.vals[j] # None}}

RECURSIVE ReadingsTotal(_, _)
\* The sum of the readings at the positions in idx.
ReadingsTotal(b, idx) ==
    IF idx = {} THEN 0
    ELSE LET i == CHOOSE x \in idx : TRUE
         IN  Get(b.vals[i]) + ReadingsTotal(b, idx \ {i})

RECURSIVE CountsProduct(_, _)
\* The product of the numbers of valid readings of the days in ds.
CountsProduct(b, ds) ==
    IF ds = {} THEN 1
    ELSE LET d == CHOOSE x \in ds : TRUE
         IN  Cardinality(ValidAt(b, d)) * CountsProduct(b, ds \ {d})

RECURSIVE DailyMeansTotal(_, _, _)
\* den times the sum of the daily means of the days in ds.
DailyMeansTotal(b, ds, den) ==
    IF ds = {} THEN 0
    ELSE LET d == CHOOSE x \in ds : TRUE
         IN  ReadingsTotal(b, ValidAt(b, d)) * (den \div Cardinality(ValidAt(b, d)))
                + DailyMeansTotal(b, ds \ {d}, den)

\* C11: weekly_avg_pm25 returns None exactly when no day has a valid
\* reading; otherwise it returns a multiple of 0.1 within 0.05 of the mean,
\* over the days with a valid reading, of each day's mean reading, so a day
\* without valid readings counts for nothing; for day 1 = [10, 20] and
\* day 2 = [30] that is 22.5.
C11_MeanOfDailyMeans ==
    (aggq # None /\ Get(aggq).fn = "weekly_avg_pm25") =>
        LET b == Get(aggq).payload
            result == Get(aggq).result
            days == DaysWithReadings(b)
            k == Cardinality(days)
            den == CountsProduct(b, days)
            total == DailyMeansTotal(b, days, den)
        IN  /\ (result = None) <=> (days = {})
            /\ result # None =>
                /\ Get(result) % 10 = 0
                /\ Abs(Get(result) * den * k - total) <= 5 * den * k
            /\ b \in AirBodies => result = Some(2250)

\* Day 1 = [10, 20] and day 2 = [30] gave 22.5.
C11_Witness ==
    /\ aggq # None
    /\ Get(aggq).fn = "weekly_avg_pm25"
    /\ Get(aggq).payload \in AirBodies
    /\ Get(aggq).result = Some(2250)

====
